---- MODULE Spec2Model ----
(***************************************************************************)
(* Model of the jx-admin server: the Express routes of server/routes.ts    *)
(* over the SupabaseStorage adapter and the zod schemas of shared/schema.  *)
(*                                                                         *)
(* Time is counted in ticks, TicksPerDay ticks to a calendar day.  The     *)
(* process clock is taken to have a fixed UTC offset, so that              *)
(* Date.setDate(getDate() - i) moves the instant by exactly i days and     *)
(* toISOString().split('T')[0] of an instant is its day number.  A date    *)
(* string "yyyy-mm-dd" is modelled by its day number: localeCompare on     *)
(* such strings is the order of the day numbers.                           *)
(*                                                                         *)
(* A JavaScript object is a function from its present keys to values, so   *)
(* an omitted key is a key outside DOMAIN.                                 *)
(***************************************************************************)
EXTENDS Integers, Sequences, FiniteSets, TLC

VARIABLES users, now, req, resp, settings, boot, stats, inflight, done,
          nullBanned, pager, dialogs, view

vars == <<users, now, req, resp, settings, boot, stats, inflight, done,
          nullBanned, pager, dialogs, view>>

(* the state of the browser: the pagination of the user table, the ban and
   unban confirmation dialogs with their mutations, and the detail view *)
client == <<pager, dialogs, view>>

(* The columns is_banned and is_vip are nullable.  A row of users holds
   booleans; nullBanned is the set of ids whose is_banned is NULL in the
   database, whatever the row holds.  Routes that return a row are only
   used in specifications where nullBanned stays empty. *)

(* the state outside the users table, the clock and the request being
   served: the settings record of the storage object, whether it is the
   one the constructor made at the first start ("first") or at a start after
   updates ("again") or has been updated since the start ("updated"), the statistics request in flight, and the
   update statements in flight with the log of those the database applied *)
others == <<settings, boot, stats, inflight, done, nullBanned, client>>

----------------------------------------------------------------------------
(* Bounds *)

MaxNow == 5
MaxDays == 3
MaxPage == 3
MaxLimit == 2

TicksPerDay == 2
MaxSettingsKeys == 2
MaxSettingsRequests == 3
MaxItems == 50
MaxPageArg == 11
MaxUpdates == 2
MaxRaceKeys == 2
DefaultDays == 30
DefaultPage == 1
DefaultLimit == 10

----------------------------------------------------------------------------
(* JavaScript values that are not plain strings, numbers or booleans *)

Null == [kind |-> "null", t |-> 0]
IsoString(t) == [kind |-> "iso", t |-> t]
DateOnlyString(d) == [kind |-> "dateonly", t |-> d]
EmptyString == [kind |-> "empty", t |-> 0]
GarbageString == [kind |-> "garbage", t |-> 0]
NumberValue(n) == [kind |-> "number", t |-> n]
DateObject(t) == [kind |-> "Date", t |-> t]
InvalidDate == [kind |-> "InvalidDate", t |-> 0]

(* new Date(string) *)
NewDate(s) ==
  IF s.kind = "iso" THEN DateObject(s.t)
  ELSE IF s.kind = "dateonly" THEN DateObject(s.t * TicksPerDay)
  ELSE InvalidDate

(* Date.prototype.toISOString of a valid date *)
ToISOString(d) == IsoString(d.t)

(* isoString.split('T')[0] *)
DatePart(s) == s.t \div TicksPerDay

----------------------------------------------------------------------------
(* The table users2 *)

UserIds == {"u1", "u2", "u3"}
MissingId == "u9"
MalformedId == "zz"
Names == {<<"a">>, <<"A", "b">>}
Phones == {<<"1">>, <<"2">>, <<"1", "2">>}
TableName == "users2"

NoResp == [route |-> "none", status |-> 0]
NoReq == [route |-> "none"]

(* DEFAULT_SETTINGS *)
DEFAULT_SETTINGS ==
  [allowRegistration |-> TRUE, maintenanceMode |-> FALSE,
   vipFeatures |-> <<"Priority Support", "Extended Expiration", "Premium Content">>,
   appVersion |-> "1.0.0", notificationMessage |-> "", activeUserTable |-> "users2"]

(* no statistics request in flight *)
NoStats == [running |-> FALSE, since |-> 0, calls |-> [k \in {} |-> 0]]

(* usePagination as UserTable mounts it: useState(initialPage) with the
   page and limit of the Dashboard's first filters, no list fetched yet *)
PagerInit == [currentPage |-> 1, filtersPage |-> 1, totalCount |-> 0, itemsPerPage |-> 10]

(* a confirmation dialog and its mutation: closed, nothing sent *)
DialogKinds == {"ban", "unban"}
DialogInit == [open |-> FALSE, pending |-> FALSE, sent |-> 0, id |-> ""]

NoView == [open |-> FALSE]

Init ==
  /\ nullBanned = {}
  /\ pager = PagerInit
  /\ dialogs = [k \in DialogKinds |-> DialogInit]
  /\ view = NoView
  /\ users = {}
  /\ now = 0
  /\ req = NoReq
  /\ resp = NoResp
  /\ settings = DEFAULT_SETTINGS
  /\ boot = "first"
  /\ stats = NoStats
  /\ inflight = {}
  /\ done = <<>>

(* The model serves one request at a time: a handler runs from its first
   line to res.json / res.status(..).json in one step and leaves the response
   in resp; Respond hands it to the client.  The clock and the table move
   between requests. *)
Idle == resp = NoResp

Respond ==
  /\ ~Idle
  /\ resp' = NoResp
  /\ req' = NoReq
  /\ UNCHANGED <<users, now, others>>

(* the process clock advances *)
Tick ==
  /\ Idle
  /\ now < MaxNow
  /\ now' = now + 1
  /\ UNCHANGED <<users, req, resp, others>>

(* external registration inserts a row; the column defaults fill the rest *)
NewRow(id, name, phone, t) ==
  [id |-> id, name |-> name, phone |-> phone, imei |-> <<"i">>,
   is_vip |-> FALSE, is_banned |-> FALSE,
   created_at |-> IsoString(t), expired_at |-> Null, last_login |-> Null]

Register(id, name, phone) ==
  /\ Idle
  /\ \A u \in users : u.id # id /\ u.phone # phone
  /\ users' = users \cup {NewRow(id, name, phone, now)}
  /\ UNCHANGED <<now, req, resp, others>>

(* a registration at a later instant than every earlier one, so that no two
   rows share created_at *)
RegisterLater(id, name, phone) ==
  /\ Idle
  /\ now < MaxNow
  /\ \A u \in users : u.id # id /\ u.phone # phone
  /\ now' = now + 1
  /\ users' = users \cup {NewRow(id, name, phone, now + 1)}
  /\ UNCHANGED <<req, resp, others>>

----------------------------------------------------------------------------
(* Sequences *)

RECURSIVE Perms(_)
Perms(S) ==
  IF S = {} THEN {<<>>}
  ELSE UNION {{<<x>> \o p : p \in Perms(S \ {x})} : x \in S}

(* the object {} *)
EmptyObject == [k \in {} |-> 0]

(* JavaScript numbers: an integer or NaN *)
Num(n) == [nan |-> FALSE, n |-> n]
NaN == [nan |-> TRUE, n |-> 0]

(* query-string values that are read as numbers *)
DigitString(n) == [kind |-> "digits", n |-> n]
JunkString == [kind |-> "junk", n |-> 0]

(* parseInt(string) *)
ParseInt(s) == IF s.kind = "digits" THEN Num(s.n) ELSE NaN

(* one call of the Supabase client: ok is whether the call reached the
   database and came back, query is what was asked *)
DbCall(op, table, ok) == [op |-> op, table |-> table, ok |-> ok]
DbQuery(op, table, ok, query) == [op |-> op, table |-> table, ok |-> ok, query |-> query]

(* the body of res.status(500).json({ message }) in the catch block of a
   route: the caught error goes to console.error only *)
FailureBodyWithDetail(message, error) == error

FailureBody(message, error) == message

----------------------------------------------------------------------------
(* Map<string, number> as a function from its keys *)

EmptyMap == [k \in {} |-> 0]

MapSet(m, k, v) == [x \in DOMAIN m \cup {k} |-> IF x = k THEN v ELSE m[x]]

(* activityByDate.get(k) || 0 *)
MapGetOrZero(m, k) == IF k \in DOMAIN m THEN m[k] ELSE 0

----------------------------------------------------------------------------
(* SupabaseStorage.getUserActivityTrend *)

(* const daysAgo = new Date(); daysAgo.setDate(daysAgo.getDate() - days) *)
DaysAgo(days) == DateObject(now - days * TicksPerDay)

(* .select('created_at').gte('created_at', since) *)
SelectCreatedSince(since) == {u \in users : u.created_at.t >= since.t}

(* for (let i = 0; i < days; i++) activityByDate.set(dateString, 0) *)
RECURSIVE InitBuckets(_, _, _)
InitBuckets(m, i, days) ==
  IF i < days
  THEN InitBuckets(MapSet(m, DatePart(ToISOString(DaysAgo(i))), 0), i + 1, days)
  ELSE m

(* data.forEach(user => ...) *)
RECURSIVE CountRowsClamped(_, _)
CountRowsClamped(m, data) ==
  IF data = <<>> THEN m
  ELSE LET dateStr == DatePart(ToISOString(NewDate(Head(data).created_at)))
       IN CountRowsClamped(IF dateStr \in DOMAIN m THEN MapSet(m, dateStr, m[dateStr] + 1)
                           ELSE m, Tail(data))

RECURSIVE CountRows(_, _)
CountRows(m, data) ==
  IF data = <<>> THEN m
  ELSE LET dateStr == DatePart(ToISOString(NewDate(Head(data).created_at)))
           count == MapGetOrZero(m, dateStr)
       IN CountRows(MapSet(m, dateStr, count + 1), Tail(data))

(* Array.from(entries).map(...).sort((a, b) => a.date.localeCompare(b.date)) *)
RECURSIVE SortedEntries(_)
SortedEntries(m) ==
  IF DOMAIN m = {} THEN <<>>
  ELSE LET d == CHOOSE x \in DOMAIN m : \A y \in DOMAIN m : x <= y
       IN <<[date |-> d, userCount |-> m[d]]>>
            \o SortedEntries([k \in DOMAIN m \ {d} |-> m[k]])

(* the keys of activityByDate in insertion order *)
RECURSIVE InsertedKeys(_, _)
InsertedKeys(keys, data) ==
  IF data = <<>> THEN keys
  ELSE LET dateStr == DatePart(ToISOString(NewDate(Head(data).created_at)))
       IN InsertedKeys(IF \E i \in DOMAIN keys : keys[i] = dateStr THEN keys
                       ELSE Append(keys, dateStr), Tail(data))

ActivityTrendUnsorted(days, data) ==
  LET m == CountRows(InitBuckets(EmptyMap, 0, days), data)
      keys == InsertedKeys([i \in 1..days |-> DatePart(ToISOString(DaysAgo(i - 1)))], data)
  IN [i \in DOMAIN keys |-> [date |-> keys[i], userCount |-> m[keys[i]]]]

ActivityTrend(days, data) == SortedEntries(CountRows(InitBuckets(EmptyMap, 0, days), data))

(* GET /api/analytics/activity *)
QueryDays(q) == IF "days" \in DOMAIN q THEN ParseInt(q.days) ELSE Num(DefaultDays)

DaysParams == {DigitString(n) : n \in 0..MaxDays} \cup {JunkString}

GetActivity(q, dbOk, rows) ==
  LET days == QueryDays(q)
      call == <<DbCall("select", TableName, dbOk)>>
      data == [i \in DOMAIN rows |-> [created_at |-> rows[i].created_at]]
  IN /\ Idle
     /\ req' = [route |-> "activity", query |-> q]
     /\ resp' =
          IF days.nan
          THEN [route |-> "activity", status |-> 500,
                body |-> FailureBody("Failed to fetch user activity data", "RangeError"),
                db |-> <<>>]
          ELSE IF ~dbOk
          THEN [route |-> "activity", status |-> 200, body |-> <<>>, db |-> call]
          ELSE [route |-> "activity", status |-> 200,
                body |-> ActivityTrend(days.n, data), db |-> call]
     /\ UNCHANGED <<users, now, others>>

GetActivityStep ==
  /\ Idle
  /\ \E q \in {EmptyObject} \cup {[days |-> d] : d \in DaysParams}, dbOk \in BOOLEAN :
       \E rows \in Perms(SelectCreatedSince(DaysAgo(QueryDays(q).n))) :
         GetActivity(q, dbOk, rows)

(* a registration whose name and phone are fixed by the id *)
NameOf == ("u1" :> <<"a">>) @@ ("u2" :> <<"A", "b">>) @@ ("u3" :> <<"a">>)
PhoneOf == ("u1" :> <<"1">>) @@ ("u2" :> <<"2">>) @@ ("u3" :> <<"1", "2">>)

RegisterPlainStep == \E id \in UserIds : Register(id, NameOf[id], PhoneOf[id])

RegisterLaterStep == \E id \in UserIds : RegisterLater(id, NameOf[id], PhoneOf[id])

NextTrend == Tick \/ RegisterPlainStep \/ GetActivityStep \/ Respond

SpecTrend == Init /\ [][NextTrend]_vars

----------------------------------------------------------------------------
(* Claims on the activity trend, under SpecTrend *)

(* the window of the request that has just been answered; the clock and the
   table are those the handler saw, since they move only between requests *)
TrendDays == QueryDays(req.query).n

TrendSucceeded ==
  /\ resp.route = "activity" /\ resp.status = 200
  /\ Len(resp.db) = 1 /\ resp.db[1].ok
  /\ ~QueryDays(req.query).nan

Today == DatePart(ToISOString(DateObject(now)))

CreatedOn(d) == {u \in users : DatePart(u.created_at) = d}

TrendIsLastNDays ==
  /\ Len(resp.body) = TrendDays
  /\ \A i \in DOMAIN resp.body : resp.body[i].date = Today - TrendDays + i

TrendCountsUsersOfDay ==
  \A i \in DOMAIN resp.body :
    resp.body[i].userCount = Cardinality(CreatedOn(resp.body[i].date))

(* C1: a successful getUserActivityTrend(N), N >= 1, returns exactly N
   entries, whose dates are the N consecutive calendar days ending today in
   ascending order, so that no entry lies outside that N-day set. *)
C1_TrendHasExactlyNDays ==
  (TrendSucceeded /\ TrendDays >= 1) => TrendIsLastNDays

(* C2: in the result of getUserActivityTrend(N) the userCount of every entry
   is the number of users created on that entry's calendar day, 0 for a day
   with no creations. *)
C2_TrendCountsUsersOfDay ==
  (TrendSucceeded /\ TrendDays >= 1) => TrendCountsUsersOfDay


----------------------------------------------------------------------------
(* Strings are sequences of characters *)

Lower(c) == IF c = "A" THEN "a" ELSE IF c = "B" THEN "b" ELSE c

CharCode(c) ==
  CASE c = "1" -> 49 [] c = "2" -> 50 [] c = "A" -> 65 [] c = "B" -> 66
    [] c = "_" -> 95 [] c = "a" -> 97 [] c = "b" -> 98 [] c = "i" -> 105
    [] c = "j" -> 106 [] c = "%" -> 37

RECURSIVE StrLeq(_, _)
StrLeq(s, t) ==
  IF s = <<>> THEN TRUE
  ELSE IF t = <<>> THEN FALSE
  ELSE IF Head(s) # Head(t) THEN CharCode(Head(s)) < CharCode(Head(t))
  ELSE StrLeq(Tail(s), Tail(t))

(* s ILIKE p: % is any run of characters, _ any one character *)
RECURSIVE ILike(_, _)
ILike(s, p) ==
  IF p = <<>> THEN s = <<>>
  ELSE IF Head(p) = "%" THEN ILike(s, Tail(p)) \/ (s # <<>> /\ ILike(Tail(s), p))
  ELSE IF s = <<>> THEN FALSE
  ELSE IF Head(p) = "_" THEN ILike(Tail(s), Tail(p))
  ELSE Lower(Head(s)) = Lower(Head(p)) /\ ILike(Tail(s), Tail(p))

----------------------------------------------------------------------------
(* filterUserSchema *)

VipValues == {"all", "vip", "non-vip"}
BanValues == {"all", "banned", "active"}
SortFields == {"name", "created_at", "last_login", "expired_at"}
SortOrders == {"asc", "desc"}
FilterDefaultKeys == {"is_vip", "is_banned", "sortBy", "sortOrder", "page", "limit", "table"}

FilterDefaultAscending(k) ==
  CASE k = "is_vip" -> "all"
    [] k = "is_banned" -> "all"
    [] k = "sortBy" -> "created_at"
    [] k = "sortOrder" -> "asc"
    [] k = "page" -> DefaultPage
    [] k = "limit" -> DefaultLimit
    [] k = "table" -> TableName

FilterDefault(k) ==
  CASE k = "is_vip" -> "all"
    [] k = "is_banned" -> "all"
    [] k = "sortBy" -> "created_at"
    [] k = "sortOrder" -> "desc"
    [] k = "page" -> DefaultPage
    [] k = "limit" -> DefaultLimit
    [] k = "table" -> TableName

(* the query parameters the list route reads *)
RouteFilterKeys ==
  {"name", "phone", "is_vip", "is_banned", "sortBy", "sortOrder", "page", "limit"}

(* a list route that hands the table parameter on as well *)
RouteFilterInputWithTable(q) ==
  [k \in DOMAIN q \cap (RouteFilterKeys \cup {"table"}) |->
     IF k \in {"page", "limit"} THEN ParseInt(q[k]) ELSE q[k]]

(* the object the route hands to filterUserSchema.parse *)
RouteFilterInput(q) ==
  [k \in DOMAIN q \cap RouteFilterKeys |->
     IF k \in {"page", "limit"} THEN ParseInt(q[k]) ELSE q[k]]

FilterFieldValid(raw, k) ==
  CASE k = "is_vip" -> raw[k] \in VipValues
    [] k = "is_banned" -> raw[k] \in BanValues
    [] k = "sortBy" -> raw[k] \in SortFields
    [] k = "sortOrder" -> raw[k] \in SortOrders
    [] k \in {"page", "limit"} -> ~raw[k].nan
    [] k = "table" -> raw[k] \in {"users", TableName}
    [] OTHER -> TRUE

FilterValid(raw) == \A k \in DOMAIN raw : FilterFieldValid(raw, k)

FilterParse(raw) ==
  [k \in DOMAIN raw \cup FilterDefaultKeys |->
     IF k \in DOMAIN raw
     THEN IF k \in {"page", "limit"} THEN raw[k].n ELSE raw[k]
     ELSE FilterDefault(k)]

----------------------------------------------------------------------------
(* SupabaseStorage.getUsers *)

Cond(col, op, val) == [col |-> col, op |-> op, val |-> val]

(* if (filters.name) query = query.ilike("name", `%${filters.name}%`) *)
IlikeCond(filters, k) ==
  IF k \in DOMAIN filters /\ filters[k] # <<>>
  THEN <<Cond(k, "ilike", <<"%">> \o filters[k] \o <<"%">>)>>
  ELSE <<>>

VipCondNoNonVip(filters) ==
  IF filters.is_vip = "vip" THEN <<Cond("is_vip", "eq", TRUE)>> ELSE <<>>

VipCond(filters) ==
  IF filters.is_vip = "vip" THEN <<Cond("is_vip", "eq", TRUE)>>
  ELSE IF filters.is_vip = "non-vip" THEN <<Cond("is_vip", "eq", FALSE)>>
  ELSE <<>>

BanCondNoActive(filters) ==
  IF filters.is_banned = "banned" THEN <<Cond("is_banned", "eq", TRUE)>> ELSE <<>>

BanCond(filters) ==
  IF filters.is_banned = "banned" THEN <<Cond("is_banned", "eq", TRUE)>>
  ELSE IF filters.is_banned = "active" THEN <<Cond("is_banned", "eq", FALSE)>>
  ELSE <<>>

(* x || d for a number x *)
NumOr(x, d) == IF x = 0 THEN d ELSE x

UsersQuery(filters) ==
  LET page == NumOr(filters.page, 1)
      limit == NumOr(filters.limit, 10)
      start == (page - 1) * limit
  IN [table |-> filters.table,
      conds |-> IlikeCond(filters, "name") \o IlikeCond(filters, "phone")
                  \o VipCond(filters) \o BanCond(filters),
      order |-> [col |-> filters.sortBy, ascending |-> filters.sortOrder = "asc"],
      range |-> [from |-> start, to |-> start + limit - 1]]

----------------------------------------------------------------------------
(* The database answering a select with filters, order and range *)

RowSatisfies(u, c) ==
  IF c.op = "ilike" THEN ILike(u[c.col], c.val)
  ELSE IF c.col = "is_banned" /\ u.id \in nullBanned THEN FALSE
  ELSE u[c.col] = c.val

Matching(conds) == {u \in users : \A i \in DOMAIN conds : RowSatisfies(u, conds[i])}

(* ORDER BY col ASC puts NULL last, DESC is the reverse order *)
ColLeq(a, b, col) ==
  IF col = "name" THEN StrLeq(a.name, b.name)
  ELSE IF b[col].kind = "null" THEN TRUE
  ELSE IF a[col].kind = "null" THEN FALSE
  ELSE a[col].t <= b[col].t

OrderLeq(a, b, order) ==
  IF order.ascending THEN ColLeq(a, b, order.col) ELSE ColLeq(b, a, order.col)

(* every order the database may return the rows in: rows with equal sort
   keys come in any order *)
SortedOrders(S, order) ==
  {p \in Perms(S) : \A i, j \in DOMAIN p : i < j => OrderLeq(p[i], p[j], order)}

(* rows from..to, counted from 0, of the ordered result *)
RangeOf(sorted, range) ==
  SubSeq(sorted, range.from + 1,
         IF range.to + 1 < Len(sorted) THEN range.to + 1 ELSE Len(sorted))

----------------------------------------------------------------------------
(* GET /api/users *)

MaxKeys == 2

FilterKeys == {"name", "phone", "is_vip", "is_banned", "sortBy", "sortOrder", "page", "limit"}

QueryValues(k) ==
  CASE k = "name" -> {<<>>, <<"B">>, <<"_">>}
    [] k = "phone" -> {<<"2">>}
    [] k = "is_vip" -> VipValues \cup {"bogus"}
    [] k = "is_banned" -> BanValues \cup {"bogus"}
    [] k = "sortBy" -> SortFields \cup {"bogus"}
    [] k = "sortOrder" -> SortOrders \cup {"bogus"}
    [] k = "page" -> {DigitString(n) : n \in (-1)..MaxPage} \cup {JunkString}
    [] k = "limit" -> {DigitString(n) : n \in 0..MaxLimit} \cup {JunkString}
    [] k = "table" -> {"users", TableName, "bogus"}

(* the objects with exactly the keys K, each value drawn from values[k] *)
RECURSIVE ObjectsOn(_, _)
ObjectsOn(K, values) ==
  IF K = {} THEN {EmptyObject}
  ELSE LET k == CHOOSE x \in K : TRUE
       IN {(k :> v) @@ r : v \in values[k], r \in ObjectsOn(K \ {k}, values)}

KeySets(Keys, n) == {K \in SUBSET Keys : Cardinality(K) <= n}

ListFailed == "Failed to fetch users"
ValidationFailed == "Validation error"

GetUsers(q, dbOk, sorted) ==
  LET raw == RouteFilterInput(q)
      query == UsersQuery(FilterParse(raw))
      call == <<DbQuery("select", query.table, dbOk /\ query.range.from >= 0, query)>>
  IN /\ Idle
     /\ req' = [route |-> "users", query |-> q]
     /\ resp' =
          IF ~FilterValid(raw)
          THEN [route |-> "users", status |-> 400, body |-> ValidationFailed, db |-> <<>>]
          ELSE IF ~call[1].ok
          THEN [route |-> "users", status |-> 500,
                body |-> FailureBody(ListFailed, "Failed to fetch users: fetch failed"),
                db |-> call]
          ELSE [route |-> "users", status |-> 200,
                body |-> [data |-> RangeOf(sorted, query.range),
                          count |-> NumOr(Cardinality(Matching(query.conds)), 0)],
                db |-> call]
     /\ UNCHANGED <<users, now, others>>

(* the orders the database may produce for the query of q *)
OrdersFor(q) ==
  LET raw == RouteFilterInput(q)
  IN IF FilterValid(raw)
     THEN LET query == UsersQuery(FilterParse(raw))
          IN SortedOrders(Matching(query.conds), query.order)
     ELSE {<<>>}

(* the query strings tried: at most MaxKeys parameters each *)
ListQueries ==
  UNION {ObjectsOn(K, [k \in FilterKeys |-> QueryValues(k)]) : K \in KeySets(FilterKeys, MaxKeys)}

GetUsersStep ==
  /\ Idle
  /\ \E q \in ListQueries, dbOk \in BOOLEAN :
       \E sorted \in OrdersFor(q) : GetUsers(q, dbOk, sorted)

----------------------------------------------------------------------------
(* The database answering .eq("id", id).single() *)

RowsWithId(id) == {u \in users : u.id = id}

NoError == "none"

(* the error of select("*").eq("id", id).single() *)
SelectSingleError(id, dbOk) ==
  IF ~dbOk THEN "fetch failed"
  ELSE IF id = MalformedId THEN "22P02"
  ELSE IF RowsWithId(id) = {} THEN "PGRST116"
  ELSE NoError

(* the row after update(payload): the columns of the payload are replaced *)
UpdatedClearingExpiry(u, payload) ==
  [c \in DOMAIN u |-> IF c \in DOMAIN payload THEN payload[c]
                      ELSE IF c = "expired_at" THEN Null ELSE u[c]]

Updated(u, payload) ==
  [c \in DOMAIN u |-> IF c \in DOMAIN payload THEN payload[c] ELSE u[c]]

(* the error of update(payload).eq("id", id).select().single() *)
UpdateError(id, payload, dbOk) ==
  IF ~dbOk THEN "fetch failed"
  ELSE IF id = MalformedId THEN "22P02"
  ELSE IF /\ "phone" \in DOMAIN payload
          /\ \E u \in users : u.id # id /\ u.phone = payload.phone
          /\ RowsWithId(id) # {}
       THEN "23505"
  ELSE IF RowsWithId(id) = {} THEN "PGRST116"
  ELSE NoError

UpdateTableEveryRow(id, payload, dbOk) ==
  IF UpdateError(id, payload, dbOk) = NoError
  THEN {Updated(u, payload) : u \in users}
  ELSE users

(* the ids whose is_banned is NULL after the update *)
UpdateNulls(id, payload, dbOk) ==
  IF UpdateError(id, payload, dbOk) = NoError /\ "is_banned" \in DOMAIN payload
  THEN nullBanned \ {id}
  ELSE nullBanned

(* the table after the update *)
UpdateTable(id, payload, dbOk) ==
  IF UpdateError(id, payload, dbOk) = NoError
  THEN {IF u.id = id THEN Updated(u, payload) ELSE u : u \in users}
  ELSE users

----------------------------------------------------------------------------
(* SupabaseStorage.getUser and GET /api/users/:id *)

GetUserStatusNoNotFound(error) == IF error = NoError THEN 200 ELSE 500

(* getUser returns the row, null for PGRST116, and throws otherwise; the
   route answers 200, 404 and 500 *)
GetUserStatus(error) ==
  IF error = NoError THEN 200 ELSE IF error = "PGRST116" THEN 404 ELSE 500

GetUser(id, dbOk) ==
  LET error == SelectSingleError(id, dbOk)
      status == GetUserStatus(error)
      call == <<DbQuery("select", TableName, dbOk, [id |-> id])>>
  IN /\ Idle
     /\ req' = [route |-> "user", id |-> id]
     /\ resp' =
          [route |-> "user", status |-> status,
           body |-> IF status = 200 THEN CHOOSE u \in RowsWithId(id) : TRUE
                    ELSE IF status = 404 THEN "User not found"
                    ELSE FailureBody("Failed to fetch user", error),
           db |-> call, error |-> error]
     /\ UNCHANGED <<users, now, others>>

----------------------------------------------------------------------------
(* SupabaseStorage.updateUser *)

UserDataKeepsDate(user) ==
  [k \in DOMAIN user |->
     IF k = "expired_at" /\ user[k].kind = "empty" THEN Null ELSE user[k]]

(* userData.expired_at instanceof Date ? toISOString() : "" -> null *)
UserData(user) ==
  [k \in DOMAIN user |->
     IF k = "expired_at" /\ user[k].kind = "Date" THEN ToISOString(user[k])
     ELSE IF k = "expired_at" /\ user[k].kind = "empty" THEN Null
     ELSE user[k]]

(* toISOString of an invalid date throws a RangeError *)
UpdateThrows(user) == "expired_at" \in DOMAIN user /\ user.expired_at.kind = "InvalidDate"

(* the response of a route that answers with updateUser(id, user), or with
   500 and message when it throws *)
UpdateResponse(route, id, user, dbOk, message) ==
  LET payload == UserData(user)
      error == UpdateError(id, payload, dbOk)
      call == <<DbQuery("update", TableName, dbOk, [id |-> id, payload |-> payload])>>
  IN IF UpdateThrows(user)
     THEN [route |-> route, status |-> 500, body |-> FailureBody(message, "RangeError"),
           db |-> <<>>,
           error |-> "RangeError"]
     ELSE IF error # NoError
     THEN [route |-> route, status |-> 500, body |-> FailureBody(message, error),
           db |-> call, error |-> error]
     ELSE [route |-> route, status |-> 200,
           body |-> Updated(CHOOSE u \in RowsWithId(id) : TRUE, payload),
           db |-> call, error |-> error]

UpdateUser(route, id, user, dbOk, message) ==
  /\ resp' = UpdateResponse(route, id, user, dbOk, message)
  /\ users' = IF UpdateThrows(user) THEN users
              ELSE UpdateTable(id, UserData(user), dbOk)
  /\ nullBanned' = IF UpdateThrows(user) THEN nullBanned
                   ELSE UpdateNulls(id, UserData(user), dbOk)
  /\ UNCHANGED <<now, settings, boot, stats, inflight, done, client>>

----------------------------------------------------------------------------
(* updateUserSchema and PUT /api/users/:id *)

UpdateKeys == {"name", "phone", "imei", "is_vip", "is_banned", "expired_at"}

(* expired_at: z.string().nullable().optional().transform(...), applied to
   the value of the key, undefined when the key is omitted *)
ExpiredAtTransform(body) ==
  IF "expired_at" \notin DOMAIN body THEN Null
  ELSE IF body.expired_at.kind \in {"empty", "null"} THEN Null
  ELSE NewDate(body.expired_at)

(* name: z.string() is the one required key; a key that is present must
   hold a value of its declared type, for expired_at a string or null *)
UpdateValid(body) ==
  /\ "name" \in DOMAIN body
  /\ "expired_at" \in DOMAIN body => body.expired_at.kind # "number"

(* unknown keys are stripped; expired_at is always set, its transform
   never yields undefined *)
UpdateParse(body) ==
  [k \in (DOMAIN body \cap UpdateKeys) \cup {"expired_at"} |->
     IF k = "expired_at" THEN ExpiredAtTransform(body) ELSE body[k]]

PutUser(id, body, dbOk) ==
  /\ Idle
  /\ req' = [route |-> "put", id |-> id, body |-> body]
  /\ IF UpdateValid(body)
     THEN UpdateUser("put", id, UpdateParse(body), dbOk, "Failed to update user")
     ELSE /\ resp' = [route |-> "put", status |-> 400, body |-> ValidationFailed,
                      db |-> <<>>, error |-> "ZodError"]
          /\ UNCHANGED <<users, now, others>>

----------------------------------------------------------------------------
(* POST /api/users/:id/ban, /unban and /vip *)

BanUserClearingExpiry(id, dbOk) ==
  /\ Idle
  /\ req' = [route |-> "ban", id |-> id]
  /\ UpdateUser("ban", id, [is_banned |-> TRUE, expired_at |-> Null], dbOk, "Failed to ban user")

BanUser(id, dbOk) ==
  /\ Idle
  /\ req' = [route |-> "ban", id |-> id]
  /\ UpdateUser("ban", id, [is_banned |-> TRUE], dbOk, "Failed to ban user")

UnbanUser(id, dbOk) ==
  /\ Idle
  /\ req' = [route |-> "unban", id |-> id]
  /\ UpdateUser("unban", id, [is_banned |-> FALSE], dbOk, "Failed to unban user")

(* JSON values of the key isVip *)
JsonBoolean(b) == [type |-> "boolean", b |-> b]
JsonOther(type) == [type |-> type, b |-> FALSE]
IsVipValues == {JsonBoolean(TRUE), JsonBoolean(FALSE), JsonOther("string"),
                JsonOther("number"), JsonOther("null")}

(* typeof isVip === "boolean", isVip being undefined when the key is absent *)
IsVipPresent(body) == "isVip" \in DOMAIN body
IsVipBoolean(body) == "isVip" \in DOMAIN body /\ body.isVip.type = "boolean"

SetVip(id, body, dbOk) ==
  /\ Idle
  /\ req' = [route |-> "vip", id |-> id, body |-> body]
  /\ IF IsVipBoolean(body)
     THEN UpdateUser("vip", id, [is_vip |-> body.isVip.b], dbOk, "Failed to update VIP status")
     ELSE /\ resp' = [route |-> "vip", status |-> 400, body |-> "isVip must be a boolean",
                      db |-> <<>>, error |-> NoError]
          /\ UNCHANGED <<users, now, others>>

----------------------------------------------------------------------------
(* Requests *)

MaxBodyKeys == 3

BodyKeys == UpdateKeys \cup {"last_login"}

BodyValues(k) ==
  CASE k = "name" -> Names
    [] k = "phone" -> {<<"1">>, <<"2">>}
    [] k = "imei" -> {<<"j">>}
    [] k = "is_vip" -> BOOLEAN
    [] k = "is_banned" -> BOOLEAN
    [] k = "expired_at" -> {Null, EmptyString, IsoString(2), DateOnlyString(1), GarbageString,
                            NumberValue(2)}
    [] k = "last_login" -> {IsoString(2)}

GetUserStep(ids) == \E id \in ids, dbOk \in BOOLEAN : GetUser(id, dbOk)

(* the bodies tried: at most MaxBodyKeys keys each *)
PutBodies ==
  UNION {ObjectsOn(K, [k \in BodyKeys |-> BodyValues(k)]) : K \in KeySets(BodyKeys, MaxBodyKeys)}

PutUserStep(ids) ==
  /\ Idle
  /\ \E id \in ids, body \in PutBodies, dbOk \in BOOLEAN : PutUser(id, body, dbOk)

BanUserStep(ids) == \E id \in ids, dbOk \in BOOLEAN : BanUser(id, dbOk)

UnbanUserStep(ids) == \E id \in ids, dbOk \in BOOLEAN : UnbanUser(id, dbOk)

SetVipStep(ids) ==
  \E id \in ids, dbOk \in BOOLEAN :
    \E body \in {EmptyObject} \cup {[isVip |-> v] : v \in IsVipValues} : SetVip(id, body, dbOk)

(* the list is read over tables filled by registrations at distinct
   instants and changed by ban, unban and VIP requests *)
FlagIds == {"u1", "u2"}

NextList ==
  \/ RegisterLaterStep
  \/ BanUserStep(FlagIds)
  \/ UnbanUserStep(FlagIds)
  \/ SetVipStep(FlagIds)
  \/ GetUsersStep
  \/ Respond

SpecList == Init /\ [][NextList]_vars

(* one user is read and written, next to a second registered user and to
   ids that have no row *)
RegisterTwoStep == \E id \in {"u1", "u2"} : Register(id, NameOf[id], PhoneOf[id])

TargetIds == {"u1", MissingId}

NextUser ==
  \/ RegisterTwoStep
  \/ GetUserStep(TargetIds \cup {MalformedId})
  \/ PutUserStep(TargetIds)
  \/ BanUserStep(TargetIds)
  \/ UnbanUserStep(TargetIds)
  \/ SetVipStep(TargetIds)
  \/ Respond

SpecUser == Init /\ [][NextUser]_vars

(* The user detail view of the browser *)

(* text shown on the page: a literal, or a day formatted yyyy-MM-dd *)
Text(s) == [kind |-> "text", s |-> s, d |-> 0]
DayText(d) == [kind |-> "day", s |-> "", d |-> d]

(* formatDate of lib/utils: "N/A" for null, undefined and "", "Invalid
   date" for a string parseISO cannot read, else the day *)
FormatDate(date) ==
  IF date.kind \in {"null", "empty"} THEN Text("N/A")
  ELSE IF date.kind \in {"iso", "dateonly"} THEN DayText(DatePart(ToISOString(NewDate(date))))
  ELSE Text("Invalid date")

(* a || b on strings: b when a is the empty string *)
OrText(a, b) == IF a = Text("") THEN b ELSE a

(* <dd>{formatDate(user.expired_at) || "No expiration"}</dd> *)
ExpirationText(user) == OrText(FormatDate(user.expired_at), Text("No expiration"))

(* handleViewUser: a row of the list is selected and the modal opened;
   the open modal covers the table *)
ViewUser(user) ==
  /\ Idle
  /\ ~view.open
  /\ view' = [open |-> TRUE, id |-> user.id, expired_at |-> user.expired_at,
              expires |-> ExpirationText(user)]
  /\ UNCHANGED <<users, now, req, resp, settings, boot, stats, inflight, done,
                 nullBanned, pager, dialogs>>

CloseView ==
  /\ view.open
  /\ view' = NoView
  /\ UNCHANGED <<users, now, req, resp, settings, boot, stats, inflight, done,
                 nullBanned, pager, dialogs>>

ViewUserStep == \E user \in users : ViewUser(user)

ViewIds == {"u1"}

NextView ==
  \/ RegisterTwoStep
  \/ PutUserStep(ViewIds)
  \/ ViewUserStep
  \/ CloseView
  \/ Respond

SpecView == Init /\ [][NextView]_vars

(* Updates in flight.  updateUser sends one statement and awaits it: between
   the arrival of a request and the database running its statement other
   requests arrive and other statements run, in any order.  SendUpdate is
   the handler up to the await, ApplyUpdate the database running the
   statement and the handler answering with its result. *)
SendUpdate(route, id, user, message) ==
  /\ Idle
  /\ Cardinality(inflight) + Len(done) < MaxUpdates
  /\ inflight' = inflight \cup
       {[n |-> Cardinality(inflight) + Len(done) + 1, route |-> route, id |-> id,
         payload |-> UserData(user), message |-> message]}
  /\ UNCHANGED <<users, now, req, resp, settings, boot, stats, done, nullBanned, client>>

ApplyUpdate(s, dbOk) ==
  /\ Idle
  /\ s \in inflight
  /\ req' = [route |-> s.route, id |-> s.id, n |-> s.n]
  /\ resp' = UpdateResponse(s.route, s.id, s.payload, dbOk, s.message)
  /\ users' = UpdateTable(s.id, s.payload, dbOk)
  /\ inflight' = inflight \ {s}
  /\ done' = Append(done, [n |-> s.n, id |-> s.id, payload |-> s.payload,
                           error |-> UpdateError(s.id, s.payload, dbOk)])
  /\ nullBanned' = UpdateNulls(s.id, s.payload, dbOk)
  /\ UNCHANGED <<now, settings, boot, stats, client>>

RaceId == "u1"

(* the PUT bodies sent while another update is in flight: those that pass
   the schema and updateUser's conversion, of at most MaxRaceKeys keys, a
   body of more than one key holding the registered name *)
RaceBodies ==
  {body \in PutBodies : /\ Cardinality(DOMAIN body) <= MaxRaceKeys
                        /\ UpdateValid(body)
                        /\ ~UpdateThrows(UpdateParse(body))
                        /\ Cardinality(DOMAIN body) = 1 \/ body.name = NameOf[RaceId]}

SendPutStep ==
  /\ Idle
  /\ \E body \in RaceBodies :
       SendUpdate("put", RaceId, UpdateParse(body), "Failed to update user")

SendBanStep == SendUpdate("ban", RaceId, [is_banned |-> TRUE], "Failed to ban user")

SendUnbanStep == SendUpdate("unban", RaceId, [is_banned |-> FALSE], "Failed to unban user")

SendVipStep ==
  \E b \in BOOLEAN : SendUpdate("vip", RaceId, [is_vip |-> b], "Failed to update VIP status")

ApplyUpdateStep == Idle /\ \E s \in inflight, dbOk \in BOOLEAN : ApplyUpdate(s, dbOk)

NextRace ==
  \/ RegisterTwoStep
  \/ SendPutStep
  \/ SendBanStep
  \/ SendUnbanStep
  \/ SendVipStep
  \/ ApplyUpdateStep
  \/ Respond

SpecRace == Init /\ [][NextRace]_vars

(* GET /api/analytics/stats over getUserStats: the five count queries are
   sent when the request arrives and answered by the database one by one,
   in any order, each over the table as it is when the database runs it;
   other requests are served meanwhile *)
StatsWindowDays == 7

StatNames == {"totalUsers", "activeUsers", "bannedUsers", "vipUsers", "newUsers"}

(* the count a query returns: a number, or null when the call failed *)
CountOf(n) == [null |-> FALSE, n |-> n]
NullCount == [null |-> TRUE, n |-> 0]

(* the rows the query named k selects *)
StatRows(k, since) ==
  CASE k = "totalUsers" -> users
    [] k = "activeUsers" -> {u \in users : u.id \notin nullBanned /\ u.is_banned = FALSE}
    [] k = "bannedUsers" -> {u \in users : u.id \notin nullBanned /\ u.is_banned = TRUE}
    [] k = "vipUsers" -> {u \in users : u.is_vip = TRUE}
    [] k = "newUsers" -> {u \in users : u.created_at.t >= since}

StatCall(k, since, dbOk) ==
  [op |-> "count", table |-> TableName, ok |-> dbOk, query |-> k,
   count |-> IF dbOk THEN CountOf(Cardinality(StatRows(k, since))) ELSE NullCount]

(* count || 0 *)
OrZero(count) == IF count.null \/ count.n = 0 THEN CountOf(0) ELSE count

(* await Promise.all([...]) has all five results *)
StatsAnswered(calls) == DOMAIN calls # {}

StatsComplete(calls) == DOMAIN calls = StatNames

GetStatsStart ==
  /\ Idle
  /\ ~stats.running
  /\ stats' = [running |-> TRUE, since |-> now - StatsWindowDays * TicksPerDay,
               calls |-> EmptyObject]
  /\ UNCHANGED <<users, now, req, resp, settings, boot, inflight, done, nullBanned, client>>

StatsQuery(k, dbOk) ==
  /\ Idle
  /\ stats.running
  /\ k \notin DOMAIN stats.calls
  /\ stats' = [stats EXCEPT !.calls = (k :> StatCall(k, stats.since, dbOk)) @@ @]
  /\ UNCHANGED <<users, now, req, resp, settings, boot, inflight, done, nullBanned, client>>

GetStatsRespond ==
  /\ Idle
  /\ stats.running
  /\ StatsComplete(stats.calls)
  /\ req' = [route |-> "stats"]
  /\ resp' = [route |-> "stats", status |-> 200,
              body |-> [k \in StatNames |->
                          IF k \in DOMAIN stats.calls THEN OrZero(stats.calls[k].count)
                          ELSE CountOf(0)],
              db |-> stats.calls]
  /\ stats' = NoStats
  /\ UNCHANGED <<users, now, settings, boot, inflight, done, nullBanned, client>>

StatsQueryStep == \E k \in StatNames, dbOk \in BOOLEAN : StatsQuery(k, dbOk)

(* more than the statistics window passes *)
WeekPasses ==
  /\ Idle
  /\ now < MaxNow
  /\ now' = now + StatsWindowDays * TicksPerDay + 1
  /\ UNCHANGED <<users, req, resp, others>>

StatsIds == {"u1"}

NextAnalytics ==
  \/ RegisterTwoStep
  \/ WeekPasses
  \/ BanUserStep(StatsIds)
  \/ UnbanUserStep(StatsIds)
  \/ SetVipStep(StatsIds)
  \/ GetStatsStart
  \/ StatsQueryStep
  \/ GetStatsRespond
  \/ Respond

SpecAnalytics == Init /\ [][NextAnalytics]_vars

(* external registration inserts a row with is_banned given as null, which
   the column, having a default and no NOT NULL, stores as NULL *)
RegisterNullBanned(id, name, phone) ==
  /\ Idle
  /\ \A u \in users : u.id # id /\ u.phone # phone
  /\ users' = users \cup {NewRow(id, name, phone, now)}
  /\ nullBanned' = nullBanned \cup {id}
  /\ UNCHANGED <<now, req, resp, settings, boot, stats, inflight, done, client>>

(* getUserStats with every write to the table falling between its runs *)
NullBannedIds == {"u2", "u3"}

QuietRegister == ~stats.running /\ Register("u1", NameOf["u1"], PhoneOf["u1"])

QuietRegisterNullBanned ==
  ~stats.running /\ \E id \in NullBannedIds : RegisterNullBanned(id, NameOf[id], PhoneOf[id])

QuietBan == ~stats.running /\ BanUserStep(StatsIds)

QuietUnban == ~stats.running /\ UnbanUserStep(StatsIds)

NextStatsQuiet ==
  \/ QuietRegister
  \/ QuietRegisterNullBanned
  \/ QuietBan
  \/ QuietUnban
  \/ GetStatsStart
  \/ StatsQueryStep
  \/ GetStatsRespond
  \/ Respond

SpecStatsQuiet == Init /\ [][NextStatsQuiet]_vars

(* GET and PUT /api/settings over getSettings and updateSettings *)

(* { ...old, ...new } *)
MergeIntoDefaults(old, new) ==
  [k \in DOMAIN DEFAULT_SETTINGS \cup DOMAIN new |->
     IF k \in DOMAIN new THEN new[k] ELSE DEFAULT_SETTINGS[k]]

Merge(old, new) ==
  [k \in DOMAIN old \cup DOMAIN new |-> IF k \in DOMAIN new THEN new[k] ELSE old[k]]

GetSettings ==
  /\ Idle
  /\ req' = [route |-> "getSettings"]
  /\ resp' = [route |-> "getSettings", status |-> 200, body |-> settings, db |-> <<>>]
  /\ UNCHANGED <<users, now, others>>

(* req.body goes to updateSettings as it is: no schema is applied *)
PutSettings(body) ==
  /\ Idle
  /\ req' = [route |-> "putSettings", body |-> body]
  /\ settings' = Merge(settings, body)
  /\ boot' = "updated"
  /\ resp' = [route |-> "putSettings", status |-> 200, body |-> settings', db |-> <<>>]
  /\ UNCHANGED <<users, now, stats, inflight, done, nullBanned, client>>

(* the process ends and starts again: the module is evaluated anew and the
   storage object constructed; the request being served is lost with the
   old process, the table lives in the database *)
RestartKeepingSettings ==
  /\ boot' = IF boot = "first" THEN "first" ELSE "again"
  /\ req' = NoReq
  /\ resp' = NoResp
  /\ stats' = NoStats
  /\ UNCHANGED <<users, now, settings, inflight, done, nullBanned, client>>

Restart ==
  /\ settings' = DEFAULT_SETTINGS
  /\ boot' = IF boot = "first" THEN "first" ELSE "again"
  /\ req' = NoReq
  /\ resp' = NoResp
  /\ stats' = NoStats
  /\ UNCHANGED <<users, now, inflight, done, nullBanned, client>>

(* the bodies tried: at most MaxSettingsKeys keys each, one of them a key
   AppSettings does not declare *)
SettingsKeys == DOMAIN DEFAULT_SETTINGS \cup {"extra"}

SettingsValues(k) ==
  CASE k \in {"allowRegistration", "maintenanceMode"} -> BOOLEAN
    [] k = "vipFeatures" -> {DEFAULT_SETTINGS.vipFeatures, <<>>}
    [] k = "appVersion" -> {"1.0.0", "2.0.0"}
    [] k = "notificationMessage" -> {"", "hi"}
    [] k = "activeUserTable" -> {"users", "users2"}
    [] OTHER -> {"x"}

SettingsBodies ==
  UNION {ObjectsOn(K, [k \in SettingsKeys |-> SettingsValues(k)]) :
           K \in KeySets(SettingsKeys, MaxSettingsKeys)}

PutSettingsStep == Idle /\ \E body \in SettingsBodies : PutSettings(body)

NextSettings == GetSettings \/ PutSettingsStep \/ Restart \/ Respond

SpecSettings == Init /\ [][NextSettings]_vars

(* the routes that validate their input or may answer 500 *)
NextRoutes == NextUser \/ GetUsersStep \/ GetActivityStep

SpecRoutes == Init /\ [][NextRoutes]_vars

(* Settings requests in flight.  A request arrives, express.json reads its
   body, and the route handler runs later, requests being handled in any
   order.  The handler calls getSettings or updateSettings, which have no
   await inside, and answers in the same turn of the event loop, so it is
   one step. *)
SettingsArrives(route, body) ==
  /\ Idle
  /\ Cardinality(inflight) + Len(done) < MaxSettingsRequests
  /\ inflight' = inflight \cup
       {[n |-> Cardinality(inflight) + Len(done) + 1, route |-> route, body |-> body]}
  /\ UNCHANGED <<users, now, req, resp, settings, boot, stats, done, nullBanned, client>>

(* an update that replaces the stored record instead of merging into it *)
SettingsHandledOverwriting(r) ==
  /\ Idle
  /\ r \in inflight
  /\ req' = r
  /\ settings' = IF r.route = "putSettings" THEN Merge(DEFAULT_SETTINGS, r.body) ELSE settings
  /\ boot' = IF r.route = "putSettings" THEN "updated" ELSE boot
  /\ resp' = [route |-> r.route, status |-> 200, body |-> settings', db |-> <<>>]
  /\ inflight' = inflight \ {r}
  /\ done' = Append(done, r)
  /\ UNCHANGED <<users, now, stats, nullBanned, client>>

SettingsHandled(r) ==
  /\ Idle
  /\ r \in inflight
  /\ req' = r
  /\ settings' = IF r.route = "putSettings" THEN Merge(settings, r.body) ELSE settings
  /\ boot' = IF r.route = "putSettings" THEN "updated" ELSE boot
  /\ resp' = [route |-> r.route, status |-> 200, body |-> settings', db |-> <<>>]
  /\ inflight' = inflight \ {r}
  /\ done' = Append(done, r)
  /\ UNCHANGED <<users, now, stats, nullBanned, client>>

(* the settings keys the concurrent updates set *)
RaceSettingsKeys == {"maintenanceMode", "appVersion"}

SettingsRaceBodies == {body \in SettingsBodies : DOMAIN body \subseteq RaceSettingsKeys}

PutSettingsArrives ==
  Idle /\ \E body \in SettingsRaceBodies : SettingsArrives("putSettings", body)

GetSettingsArrives == SettingsArrives("getSettings", EmptyObject)

SettingsHandledStep == Idle /\ \E r \in inflight : SettingsHandled(r)

NextSettingsRace ==
  PutSettingsArrives \/ GetSettingsArrives \/ SettingsHandledStep \/ Respond

SpecSettingsRace == Init /\ [][NextSettingsRace]_vars

(* Every route with a table parameter in the query string.  The list route
   reads the parameters it names from req.query; the other handlers read
   req.params and req.body only, so their steps have no query among their
   inputs.  A statistics request is under way only between other requests. *)
TableQueries ==
  UNION {ObjectsOn(K \cup {"table"}, [k \in FilterKeys \cup {"table"} |-> QueryValues(k)]) :
           K \in KeySets({"is_banned", "page"}, 1)}

GetUsersOfTableStep ==
  /\ Idle
  /\ \E q \in TableQueries, dbOk \in BOOLEAN :
       \E sorted \in OrdersFor(q) : GetUsers(q, dbOk, sorted)

TableIds == {"u1"}

(* updates of the name alone *)
PutNameStep(ids) ==
  /\ Idle
  /\ \E id \in ids, dbOk \in BOOLEAN :
       \E body \in {b \in PutBodies : DOMAIN b = {"name"}} : PutUser(id, body, dbOk)

NextTables ==
  \/ RegisterTwoStep
  \/ ~stats.running /\ GetUsersOfTableStep
  \/ ~stats.running /\ GetUserStep(TableIds)
  \/ ~stats.running /\ PutNameStep(TableIds)
  \/ ~stats.running /\ BanUserStep(TableIds)
  \/ ~stats.running /\ UnbanUserStep(TableIds)
  \/ ~stats.running /\ SetVipStep(TableIds)
  \/ ~stats.running /\ GetActivityStep
  \/ GetStatsStart
  \/ StatsQueryStep
  \/ GetStatsRespond
  \/ Respond

SpecTables == Init /\ [][NextTables]_vars

(* ban, unban, fetch and list over a table of rows registered at distinct
   instants *)
NextBan ==
  \/ RegisterLaterStep
  \/ BanUserStep(FlagIds)
  \/ UnbanUserStep(FlagIds)
  \/ GetUserStep(FlagIds)
  \/ GetUsersStep
  \/ Respond

SpecBan == Init /\ [][NextBan]_vars

----------------------------------------------------------------------------
(* usePagination *)

MaxOf(a, b) == IF a >= b THEN a ELSE b
MinOf(a, b) == IF a <= b THEN a ELSE b

(* Math.ceil(a / b) for a >= 0 and b > 0 *)
CeilDiv(a, b) == (a + b - 1) \div b

(* Math.max(1, Math.ceil(totalItems / itemsPerPage)) *)
TotalPages(p) == MaxOf(1, CeilDiv(p.totalCount, p.itemsPerPage))

(* a render of the hook: if (currentPage > totalPages) setCurrentPage(totalPages) *)
Rendered(p) ==
  IF p.currentPage > TotalPages(p) THEN [p EXCEPT !.currentPage = TotalPages(p)] ELSE p

server == <<users, now, req, resp, settings, boot, stats, inflight, done, nullBanned>>

(* a goToPage without the lower limit *)
GoToPageUnclamped(page) ==
  /\ pager' = Rendered([pager EXCEPT !.currentPage = MinOf(page, TotalPages(pager))])
  /\ UNCHANGED <<server, dialogs, view>>

GoToPage(page) ==
  /\ pager' = Rendered([pager EXCEPT !.currentPage = MaxOf(1, MinOf(page, TotalPages(pager)))])
  /\ UNCHANGED <<server, dialogs, view>>

NextPage ==
  /\ pager' = Rendered(IF pager.currentPage < TotalPages(pager)
                       THEN [pager EXCEPT !.currentPage = @ + 1] ELSE pager)
  /\ UNCHANGED <<server, dialogs, view>>

PrevPage ==
  /\ pager' = Rendered(IF pager.currentPage > 1
                       THEN [pager EXCEPT !.currentPage = @ - 1] ELSE pager)
  /\ UNCHANGED <<server, dialogs, view>>

(* the component is rendered with another totalItems or itemsPerPage *)
SetTotalItems(n) ==
  /\ pager' = Rendered([pager EXCEPT !.totalCount = n])
  /\ UNCHANGED <<server, dialogs, view>>

SetItemsPerPage(n) ==
  /\ pager' = Rendered([pager EXCEPT !.itemsPerPage = n])
  /\ UNCHANGED <<server, dialogs, view>>

(* getPageRange: page numbers and "..." *)
Page(n) == [ellipsis |-> FALSE, n |-> n]
Ellipsis == [ellipsis |-> TRUE, n |-> 0]
maxVisiblePages == 5

(* a range that takes the pages up to 4 for close to the start *)
GetPageRangeWideStart(currentPage, totalPages) ==
  <<Page(1)>> \o
  (IF totalPages <= maxVisiblePages
   THEN [i \in 1..(totalPages - 1) |-> Page(i + 1)]
   ELSE IF currentPage <= 4
   THEN <<Page(2), Page(3), Ellipsis, Page(totalPages)>>
   ELSE IF currentPage >= totalPages - 2
   THEN <<Ellipsis, Page(totalPages - 2), Page(totalPages - 1), Page(totalPages)>>
   ELSE <<Ellipsis, Page(currentPage - 1), Page(currentPage), Page(currentPage + 1),
          Ellipsis, Page(totalPages)>>)

GetPageRange(currentPage, totalPages) ==
  <<Page(1)>> \o
  (IF totalPages <= maxVisiblePages
   THEN [i \in 1..(totalPages - 1) |-> Page(i + 1)]
   ELSE IF currentPage <= 3
   THEN <<Page(2), Page(3), Ellipsis, Page(totalPages)>>
   ELSE IF currentPage >= totalPages - 2
   THEN <<Ellipsis, Page(totalPages - 2), Page(totalPages - 1), Page(totalPages)>>
   ELSE <<Ellipsis, Page(currentPage - 1), Page(currentPage), Page(currentPage + 1),
          Ellipsis, Page(totalPages)>>)

PageArgs == (-1)..MaxPageArg
PageSizes == {5, DefaultLimit}

GoToPageStep == \E page \in PageArgs : GoToPage(page)

SetTotalItemsStep == \E n \in 0..MaxItems : SetTotalItems(n)

SetItemsPerPageStep == \E n \in PageSizes : SetItemsPerPage(n)

NextPager ==
  GoToPageStep \/ NextPage \/ PrevPage \/ SetTotalItemsStep \/ SetItemsPerPageStep

SpecPager == Init /\ [][NextPager]_vars

----------------------------------------------------------------------------
(* The pagination of the user table in the dashboard.  Dashboard holds
   filters, UserTable holds the hook.  totalCount is data?.count || 0 of
   the users query for the current filters: 0 while no answer for them is
   held.  UserFilters calls onFilterChange({..., page: 1}) in an effect
   whose dependencies include onFilterChange, a function Dashboard makes
   anew at each render, so each render of Dashboard is followed by
   setFilters with page 1. *)

(* the page number buttons shown *)
PageButtons ==
  LET range == GetPageRange(pager.currentPage, TotalPages(pager))
  IN {range[i].n : i \in {j \in DOMAIN range : ~range[j].ellipsis}}

(* a click on a page number: handlePageChange calls pagination.goToPage and
   onPageChange; Dashboard renders with filters.page = page, for which an
   answer is held (cached) or not; the effect puts filters.page back to 1,
   for which the answer shown before is held *)
ClickPageNumber(page, cached) ==
  LET gone == [pager EXCEPT !.currentPage = MaxOf(1, MinOf(page, TotalPages(pager))),
                            !.filtersPage = page]
      paged == Rendered([gone EXCEPT !.totalCount = IF cached THEN @ ELSE 0])
      reset == Rendered([paged EXCEPT !.filtersPage = 1, !.totalCount = pager.totalCount])
  IN /\ page \in PageButtons
     /\ pager' = reset
     /\ UNCHANGED <<server, dialogs, view>>

(* Next and Previous call the hook alone; the buttons are disabled on the
   last and on the first page *)
ClickNext ==
  /\ pager.currentPage # TotalPages(pager)
  /\ NextPage

ClickPrev ==
  /\ pager.currentPage # 1
  /\ PrevPage

(* the user changes a filter: handleFilterChange sets it with page 1; n is
   the count of the answer held for the new filters, 0 when none is *)
ChangeFilter(n) ==
  /\ pager' = Rendered([pager EXCEPT !.filtersPage = 1, !.totalCount = n])
  /\ UNCHANGED <<server, dialogs, view>>

(* the users query for the current filters is answered with count n *)
DataArrives(n) ==
  /\ pager' = Rendered([pager EXCEPT !.filtersPage = 1, !.totalCount = n])
  /\ UNCHANGED <<server, dialogs, view>>

ClickPageNumberStep ==
  \E page \in 1..MaxPageArg, cached \in BOOLEAN : ClickPageNumber(page, cached)

ChangeFilterStep == \E n \in 0..MaxItems : ChangeFilter(n)

DataArrivesStep == \E n \in 0..MaxItems : DataArrives(n)

NextUserTable ==
  ClickPageNumberStep \/ ClickNext \/ ClickPrev \/ ChangeFilterStep \/ DataArrivesStep

SpecUserTable == Init /\ [][NextUserTable]_vars

----------------------------------------------------------------------------
(* The ban and unban confirmation dialogs of the dashboard.  open is
   isBanModalOpen or isUnbanModalOpen, pending the isPending of the
   mutation, sent the number of its requests neither resolved nor
   rejected, id the selected user.  The dialogs are modal: the table
   behind an open dialog takes no clicks. *)

(* the Ban or Unban button of a row *)
OpenDialog(kind, user) ==
  /\ \A k \in DialogKinds : ~dialogs[k].open
  /\ user.is_banned = (kind = "unban")
  /\ dialogs' = [dialogs EXCEPT ![kind].open = TRUE, ![kind].id = user.id]
  /\ UNCHANGED <<server, pager, view>>

(* the Cancel button, disabled while the mutation is pending *)
CancelDialog(kind) ==
  /\ dialogs[kind].open
  /\ ~dialogs[kind].pending
  /\ dialogs' = [dialogs EXCEPT ![kind].open = FALSE]
  /\ UNCHANGED <<server, pager, view>>

(* a dismissal that closes a dialog whose mutation is pending *)
DismissDialogWhilePending(kind) ==
  /\ dialogs[kind].open
  /\ dialogs' = [dialogs EXCEPT ![kind].open = FALSE]
  /\ UNCHANGED <<server, pager, view>>

(* the Escape key: onOpenChange(false) runs !isPending && !open && onClose() *)
DismissDialog(kind) ==
  /\ dialogs[kind].open
  /\ dialogs' = [dialogs EXCEPT ![kind].open = dialogs[kind].pending]
  /\ UNCHANGED <<server, pager, view>>

(* the confirm button, disabled while the mutation is pending:
   handleConfirmBan or handleConfirmUnban calls mutate *)
ConfirmDialog(kind) ==
  /\ dialogs[kind].open
  /\ ~dialogs[kind].pending
  /\ dialogs' = [dialogs EXCEPT ![kind].pending = TRUE, ![kind].sent = @ + 1]
  /\ UNCHANGED <<server, pager, view>>

(* the server handles the request of the mutation *)
DialogServed(kind) ==
  /\ dialogs[kind].sent > 0
  /\ \E dbOk \in BOOLEAN :
       IF kind = "ban" THEN BanUser(dialogs[kind].id, dbOk)
       ELSE UnbanUser(dialogs[kind].id, dbOk)

(* mutationFn resolves with the answer of the server: onSuccess *)
MutationSucceeds(kind) ==
  /\ dialogs[kind].pending
  /\ resp.route = kind
  /\ dialogs' = [dialogs EXCEPT ![kind].pending = FALSE, ![kind].sent = @ - 1,
                                 ![kind].open = FALSE]
  /\ resp' = NoResp
  /\ req' = NoReq
  /\ UNCHANGED <<users, now, settings, boot, stats, inflight, done, nullBanned, pager, view>>

(* mutationFn rejects, with or without an answer of the server: onError *)
MutationFails(kind) ==
  /\ dialogs[kind].pending
  /\ resp.route \in {kind, "none"}
  /\ dialogs' = [dialogs EXCEPT ![kind].pending = FALSE, ![kind].sent = @ - 1]
  /\ resp' = NoResp
  /\ req' = NoReq
  /\ UNCHANGED <<users, now, settings, boot, stats, inflight, done, nullBanned, pager, view>>

OpenDialogStep == \E kind \in DialogKinds, user \in users : OpenDialog(kind, user)

CancelDialogStep == \E kind \in DialogKinds : CancelDialog(kind)

DismissDialogStep == \E kind \in DialogKinds : DismissDialog(kind)

ConfirmDialogStep == \E kind \in DialogKinds : ConfirmDialog(kind)

DialogServedStep == \E kind \in DialogKinds : DialogServed(kind)

MutationSucceedsStep == \E kind \in DialogKinds : MutationSucceeds(kind)

MutationFailsStep == \E kind \in DialogKinds : MutationFails(kind)

NextDialogs ==
  \/ RegisterTwoStep
  \/ OpenDialogStep
  \/ CancelDialogStep
  \/ DismissDialogStep
  \/ ConfirmDialogStep
  \/ DialogServedStep
  \/ MutationSucceedsStep
  \/ MutationFailsStep

SpecDialogs == Init /\ [][NextDialogs]_vars

Next ==
  \/ NextTrend \/ NextList \/ NextUser \/ NextRoutes \/ NextBan
  \/ NextRace \/ NextAnalytics \/ NextSettings
  \/ NextSettingsRace \/ NextStatsQuiet \/ NextTables \/ NextView
  \/ NextPager \/ NextUserTable \/ NextDialogs

Spec == Init /\ [][Next]_vars

----------------------------------------------------------------------------
(* Claims on GET /api/users, under SpecList *)

ListServed == resp.route = "users" /\ resp.status = 200

(* the value the request gives parameter k as a number, d when omitted *)
NumberParam(q, k, d) == IF k \in DOMAIN q THEN ParseInt(q[k]).n ELSE d

(* the row matches the filters of the query string q *)
TextMatches(u, q, col) ==
  col \notin DOMAIN q \/ q[col] = <<>> \/ ILike(u[col], <<"%">> \o q[col] \o <<"%">>)

FlagMatches(u, q, k, yes, no) ==
  \/ k \notin DOMAIN q
  \/ q[k] = "all"
  \/ q[k] = yes /\ u[k] = TRUE
  \/ q[k] = no /\ u[k] = FALSE

RowMatches(u, q) ==
  /\ TextMatches(u, q, "name") /\ TextMatches(u, q, "phone")
  /\ FlagMatches(u, q, "is_vip", "vip", "non-vip")
  /\ FlagMatches(u, q, "is_banned", "banned", "active")

MatchingRows(q) == {u \in users : RowMatches(u, q)}

SeqRange(seq) == {seq[i] : i \in DOMAIN seq}

(* the rows another call with the same filters and limit may return for
   page p *)
PageAnswers(q, p) ==
  LET q2 == ("page" :> DigitString(p)) @@ q
      query == UsersQuery(FilterParse(RouteFilterInput(q2)))
  IN {SeqRange(RangeOf(sorted, query.range)) :
        sorted \in SortedOrders(Matching(query.conds), query.order)}

PagesOf(count, limit) == (count + limit - 1) \div limit

(* C3: for a valid filter with page p >= 1 and limit L >= 1 over an unchanged
   table getUsers returns at most L rows of the matching set, as many as
   positions (p-1)*L .. p*L-1 hold, and the rows of page p are disjoint from
   the rows any call returns for another page of 1..ceil(count/L), so that
   the pages together hold every matching row exactly once. *)
C3_PagesPartitionMatches ==
  LET q == req.query
      p == NumberParam(q, "page", DefaultPage)
      L == NumberParam(q, "limit", DefaultLimit)
      data == resp.body.data
      count == Cardinality(MatchingRows(q))
      left == count - (p - 1) * L
  IN (ListServed /\ p >= 1 /\ L >= 1)
       => /\ Len(data) <= L
          /\ Len(data) = IF left < 0 THEN 0 ELSE IF left < L THEN left ELSE L
          /\ SeqRange(data) \subseteq MatchingRows(q)
          /\ \A p2 \in 1..PagesOf(count, L) :
               p2 # p => \A rows \in PageAnswers(q, p2) : rows \cap SeqRange(data) = {}

(* C4: count is the number of rows matching the name, phone, VIP and ban
   filters, whatever page, limit and sort are; every returned row matches
   them; vip / non-vip and banned / active select by equality on the flag and
   all restricts nothing. *)
C4_CountAndRowsMatchFilters ==
  ListServed
    => /\ resp.body.count = Cardinality(MatchingRows(req.query))
       /\ SeqRange(resp.body.data) \subseteq MatchingRows(req.query)

C4_Witness ==
  /\ ListServed
  /\ DOMAIN req.query = {"is_vip", "limit"}
  /\ req.query.is_vip = "non-vip"
  /\ resp.body.count = 2 /\ Len(resp.body.data) = 1
  /\ Cardinality(users) = 3

(* C5: a GET /api/users request whose page is below 1 is answered 400 and
   issues no database query. *)
C5_PageBelowOneRejected ==
  (/\ resp.route = "users"
   /\ "page" \in DOMAIN req.query
   /\ ~ParseInt(req.query.page).nan
   /\ ParseInt(req.query.page).n < 1)
    => (resp.status = 400 /\ resp.db = <<>>)

(* C6: the list query runs with the default of every omitted parameter:
   no VIP or ban condition, order by created_at descending, page 1 and
   limit 10. *)
HasCond(query, col) == \E i \in DOMAIN query.conds : query.conds[i].col = col

C6_OmittedParametersTakeDefaults ==
  (resp.route = "users" /\ resp.db # <<>>)
    => LET q == req.query
           query == resp.db[1].query
       IN /\ "is_vip" \notin DOMAIN q => ~HasCond(query, "is_vip")
          /\ "is_banned" \notin DOMAIN q => ~HasCond(query, "is_banned")
          /\ "sortBy" \notin DOMAIN q => query.order.col = "created_at"
          /\ "sortOrder" \notin DOMAIN q => ~query.order.ascending
          /\ ("page" \notin DOMAIN q /\ "limit" \notin DOMAIN q)
               => query.range = [from |-> 0, to |-> 9]
          /\ "page" \notin DOMAIN q => query.range.from = 0
          /\ ("limit" \notin DOMAIN q /\ "page" \in DOMAIN q)
               => LET p == NumOr(ParseInt(q.page).n, 1)
                  IN query.range = [from |-> (p - 1) * 10, to |-> p * 10 - 1]

C6_Witness ==
  /\ ListServed
  /\ req.query = EmptyObject
  /\ resp.db[1].query.order = [col |-> "created_at", ascending |-> FALSE]
  /\ resp.db[1].query.range = [from |-> 0, to |-> 9]
  /\ resp.body.count = 3

----------------------------------------------------------------------------
(* Claims on the single-user routes, under SpecUser *)

Columns == {"id", "name", "phone", "imei", "is_vip", "is_banned",
            "created_at", "expired_at", "last_login"}

(* the database was reached, answered, and holds no row for the id asked *)
ReportedNoRow ==
  /\ resp.db # <<>> /\ resp.db[1].ok
  /\ req.id # MalformedId
  /\ \A u \in users : u.id # req.id

(* C7: GET /api/users/:id answers 200 with the user when the row exists, 404
   when the database reports that no row matches, and 500 for any other
   database error, and these exclude each other. *)
C7_FetchOutcomes ==
  resp.route = "user"
    => /\ resp.status \in {200, 404, 500}
       /\ resp.status = 200
            <=> (resp.db[1].ok /\ \E u \in users : u.id = req.id /\ resp.body = u)
       /\ resp.status = 404 <=> ReportedNoRow
       /\ resp.status = 500 <=> (~resp.db[1].ok \/ req.id = MalformedId)

C7_Witness ==
  /\ resp.route = "user" /\ resp.status = 404
  /\ req.id = MissingId
  /\ users # {}

(* C8: a fetch, update, ban, unban or VIP-toggle of an id that has no row is
   answered 404, not 500. *)
C8_MissingRowIsNotFound ==
  (resp.route \in {"user", "put", "ban", "unban", "vip"} /\ ReportedNoRow)
    => resp.status = 404

(* a PUT has just been handled *)
PutHandled == Idle /\ req'.route = "put"

SameIds(t1, t2) == {u.id : u \in t1} = {u.id : u \in t2}

(* every column of every row of t1 keeps its value in t2, but for the columns
   in cols of the row id *)
OnlyChanged(t1, t2, id, cols) ==
  /\ SameIds(t1, t2)
  /\ \A u \in t1 : \E v \in t2 :
       /\ v.id = u.id
       /\ \A c \in Columns : (u.id = id /\ c \in cols) \/ v[c] = u[c]

(* the values of the body have the types the schema declares *)
WellTyped(body) == "expired_at" \in DOMAIN body => body.expired_at.kind # "number"

(* C9 as claimed: PUT accepts a body holding any subset of the updatable
   fields and changes only the fields present in the body. *)
C9_PutChangesOnlyBodyFields ==
  [][(PutHandled /\ DOMAIN req'.body \subseteq UpdateKeys /\ WellTyped(req'.body))
       => /\ resp'.status # 400
          /\ OnlyChanged(users, users', req'.id, DOMAIN req'.body)]_vars

(* C9 as amended: PUT rejects a body without name, or with a value of
   another type than declared, with 400 and changes nothing; for a body
   with name it changes at most the updatable fields present in the body
   and expired_at, of the target row only. *)
C9_PutChangesBodyFieldsAndExpiry ==
  [][PutHandled
       => /\ resp'.status = 400 <=> ("name" \notin DOMAIN req'.body \/ ~WellTyped(req'.body))
          /\ resp'.status # 200 => users' = users
          /\ OnlyChanged(users, users', req'.id,
                         (DOMAIN req'.body \cap UpdateKeys) \cup {"expired_at"})]_vars

C9_Witness ==
  /\ resp.route = "put" /\ resp.status = 200
  /\ DOMAIN req.body = {"name", "is_vip", "last_login"}
  /\ resp.body.name # NameOf[req.id]
  /\ resp.body.is_banned /\ resp.body.imei = <<"j">> /\ resp.body.last_login = Null
  /\ \E u \in users : u.id = "u2"

(* the instant a date string denotes *)
InstantOf(s) == IF s.kind = "dateonly" THEN s.t * TicksPerDay ELSE s.t

(* C10: a successful PUT persists null for an expired_at that is empty, null
   or omitted, and the canonical ISO-8601 string of the instant for a valid
   date string; the response and a later fetch return the persisted value. *)
C10_ExpiryNormalised ==
  /\ (resp.route = "put" /\ resp.status = 200)
       => \E u \in users :
            /\ u.id = req.id
            /\ resp.body = u
            /\ ("expired_at" \notin DOMAIN req.body) => u.expired_at = Null
            /\ ("expired_at" \in DOMAIN req.body)
                 => IF req.body.expired_at.kind \in {"empty", "null"}
                    THEN u.expired_at = Null
                    ELSE u.expired_at = IsoString(InstantOf(req.body.expired_at))
  /\ (resp.route = "user" /\ resp.status = 200)
       => /\ resp.body \in users
          /\ resp.body.expired_at.kind \in {"null", "iso"}

C10_Witness ==
  /\ resp.route = "put" /\ resp.status = 200
  /\ "expired_at" \in DOMAIN req.body
  /\ req.body.expired_at = DateOnlyString(1)
  /\ \E u \in users : u.id = req.id /\ u.expired_at = IsoString(TicksPerDay)

----------------------------------------------------------------------------
(* C11: POST /api/users/:id/vip with a body whose isVip is absent, null, a
   string or a number is answered 400, sends nothing to the database and
   leaves the table as it was; with a boolean isVip the row of the answer
   200 is stored with is_vip equal to that boolean. *)
VipHandled == Idle /\ req'.route = "vip"

C11_VipRejectsNonBoolean ==
  [][VipHandled =>
       LET body == req'.body
       IN IF "isVip" \in DOMAIN body /\ body.isVip.type = "boolean"
          THEN /\ resp'.status # 400
               /\ Len(resp'.db) = 1
               /\ resp'.db[1].query.payload = [is_vip |-> body.isVip.b]
               /\ resp'.status = 200 =>
                     /\ resp'.body.is_vip = body.isVip.b
                     /\ \E u \in users' : u.id = req'.id /\ u.is_vip = body.isVip.b
          ELSE /\ resp'.status = 400
               /\ resp'.db = <<>>
               /\ users' = users]_vars

(* a stored VIP row has been the target of a toggle whose isVip is a string *)
C11_Witness ==
  /\ resp.route = "vip"
  /\ resp.status = 400
  /\ "isVip" \in DOMAIN req.body
  /\ req.body.isVip.type = "string"
  /\ \E u \in users : u.id = req.id /\ u.is_vip

----------------------------------------------------------------------------
(* C12: a ban answered 200 stores is_banned = true in the row; the row keeps
   it through every step that is not a write to that user; and while it is
   stored, a fetch of the user answered 200 returns is_banned = true, a list
   with is_banned = 'banned' whose other filters the user matches counts the
   user and holds it on a page of 1..ceil(count/limit) whatever order the
   database produced (on page 1 when the count fits the limit), and no list
   with is_banned = 'active' returns the user. *)
WriteRoutes == {"put", "ban", "unban", "vip"}

WritesTo(id) == Idle /\ req'.route \in WriteRoutes /\ req'.id = id

(* the rows of page p when the database produced the order sorted *)
PageOfOrder(sorted, q, p) ==
  LET q2 == ("page" :> DigitString(p)) @@ q
  IN SeqRange(RangeOf(sorted, UsersQuery(FilterParse(RouteFilterInput(q2))).range))

FetchShowsBan(u) ==
  (resp.route = "user" /\ resp.status = 200 /\ req.id = u.id)
    => resp.body.is_banned = TRUE

BannedListHolds(u) ==
  LET q == req.query
      p == NumberParam(q, "page", DefaultPage)
      L == NumberParam(q, "limit", DefaultLimit)
  IN (/\ ListServed /\ p >= 1 /\ L >= 1
      /\ "is_banned" \in DOMAIN q /\ q.is_banned = "banned"
      /\ TextMatches(u, q, "name") /\ TextMatches(u, q, "phone")
      /\ FlagMatches(u, q, "is_vip", "vip", "non-vip"))
       => /\ resp.body.count >= 1
          /\ \A sorted \in OrdersFor(q) :
               \E p2 \in 1..PagesOf(resp.body.count, L) : u \in PageOfOrder(sorted, q, p2)
          /\ (p = 1 /\ resp.body.count <= L) => u \in SeqRange(resp.body.data)

ActiveListOmits(u) ==
  (ListServed /\ "is_banned" \in DOMAIN req.query /\ req.query.is_banned = "active")
    => u \notin SeqRange(resp.body.data)

C12_BanIsReadBack ==
  /\ [][(Idle /\ req'.route = "ban" /\ resp'.status = 200)
          => \E u \in users' : u.id = req'.id /\ u.is_banned]_vars
  /\ [][\A u \in users : (u.is_banned /\ ~WritesTo(u.id)) => u \in users']_vars
  /\ [](\A u \in users :
          u.is_banned => FetchShowsBan(u) /\ BannedListHolds(u) /\ ActiveListOmits(u))

(* a list with is_banned = 'banned' is served with a banned and an active
   row in the table, and returns the banned one *)
C12_Witness ==
  /\ ListServed
  /\ "is_banned" \in DOMAIN req.query /\ req.query.is_banned = "banned"
  /\ \E u, v \in users : u.is_banned /\ ~v.is_banned /\ u \in SeqRange(resp.body.data)

----------------------------------------------------------------------------
(* C13: PUT /api/settings with a partial record gives every key of the
   record the record's value and leaves every other key of the settings at
   its value, answers 200 with the settings it stored, and a GET that
   follows answers with the stored settings and changes nothing. *)
C13_UpdateMergesPartialRecord ==
  /\ [][(Idle /\ req'.route = "putSettings") =>
          LET body == req'.body
          IN /\ DOMAIN settings' = DOMAIN settings \cup DOMAIN body
             /\ \A k \in DOMAIN body : settings'[k] = body[k]
             /\ \A k \in DOMAIN settings \ DOMAIN body : settings'[k] = settings[k]
             /\ resp'.status = 200
             /\ resp'.body = settings']_vars
  /\ [][(Idle /\ req'.route = "getSettings") =>
          resp'.status = 200 /\ resp'.body = settings /\ settings' = settings]_vars

(* only maintenanceMode is updated while appVersion holds an updated value *)
C13_Witness ==
  /\ resp.route = "putSettings"
  /\ DOMAIN req.body = {"maintenanceMode"}
  /\ req.body.maintenanceMode = TRUE
  /\ settings.appVersion = "2.0.0"
  /\ settings.maintenanceMode = TRUE

(* C14: the settings the storage object holds from its construction until
   the first update, at the first start and after every restart, are
   allowRegistration = true, maintenanceMode = false, the three default VIP
   features, appVersion '1.0.0' and an empty notificationMessage. *)
C14_SettingsStartAtDefaults ==
  boot # "updated" =>
    /\ settings.allowRegistration = TRUE
    /\ settings.maintenanceMode = FALSE
    /\ settings.vipFeatures = <<"Priority Support", "Extended Expiration", "Premium Content">>
    /\ settings.appVersion = "1.0.0"
    /\ settings.notificationMessage = ""

(* the process has started again after updates *)
C14_Witness == boot = "again" /\ settings = DEFAULT_SETTINGS

----------------------------------------------------------------------------
(* C15: a GET /api/users whose is_vip, is_banned, sortBy or sortOrder is
   outside its enum or whose page or limit is not a number, and a PUT whose
   body lacks name, holds a value of another type than declared or holds an
   expired_at that is a non-empty string and not a date, is answered 400 and
   sends no update to the database. *)
ListViolatesSchema(q) ==
  \/ "is_vip" \in DOMAIN q /\ q.is_vip \notin {"all", "vip", "non-vip"}
  \/ "is_banned" \in DOMAIN q /\ q.is_banned \notin {"all", "banned", "active"}
  \/ "sortBy" \in DOMAIN q /\ q.sortBy \notin {"name", "created_at", "last_login", "expired_at"}
  \/ "sortOrder" \in DOMAIN q /\ q.sortOrder \notin {"asc", "desc"}
  \/ "page" \in DOMAIN q /\ q.page.kind # "digits"
  \/ "limit" \in DOMAIN q /\ q.limit.kind # "digits"

PutViolatesSchema(body) ==
  \/ "name" \notin DOMAIN body
  \/ ~WellTyped(body)
  \/ "expired_at" \in DOMAIN body /\ body.expired_at.kind = "garbage"

C15_SchemaViolationsAnswered400 ==
  (\/ resp.route = "users" /\ ListViolatesSchema(req.query)
   \/ resp.route = "put" /\ PutViolatesSchema(req.body))
    => /\ resp.status = 400
       /\ \A i \in DOMAIN resp.db : resp.db[i].op # "update"

----------------------------------------------------------------------------
(* C16: a response to a request during which a database call returned an
   error has status 500, on every route. *)
C16_FailedCallAnswered500 ==
  (resp.route # "none" /\ \E i \in DOMAIN resp.db : ~resp.db[i].ok)
    => resp.status = 500

(* C20: the statistics response is sent only when all five count queries
   have been answered, and each of its five fields is an integer >= 0, which
   is 0 where the database returned null. *)
C20_StatsJoinAllCounts ==
  /\ [][(Idle /\ resp'.route = "stats") => StatNames \subseteq DOMAIN stats.calls]_vars
  /\ [](resp.route = "stats" =>
          /\ DOMAIN resp.body = StatNames
          /\ \A k \in StatNames :
               /\ ~resp.body[k].null
               /\ resp.body[k].n \in Nat
               /\ (k \in DOMAIN resp.db /\ resp.db[k].count.null) => resp.body[k].n = 0)

(* statistics are answered over a table with rows, one count null and
   another positive *)
C20_Witness ==
  /\ resp.route = "stats"
  /\ \E k, k2 \in StatNames :
       /\ resp.db[k].count.null /\ resp.body[k].n = 0
       /\ StatRows(k, now) # {}
       /\ resp.body[k2].n >= 1

----------------------------------------------------------------------------
(* C17: the body of a response with status 500 is the message of its route,
   whatever error the database reported or the handler caught. *)
RouteMessage ==
  [users |-> "Failed to fetch users", user |-> "Failed to fetch user",
   put |-> "Failed to update user", ban |-> "Failed to ban user",
   unban |-> "Failed to unban user", vip |-> "Failed to update VIP status",
   stats |-> "Failed to fetch user statistics",
   activity |-> "Failed to fetch user activity data",
   getSettings |-> "Failed to fetch application settings",
   putSettings |-> "Failed to update application settings"]

C17_ServerErrorBodyIsRouteMessage ==
  resp.status = 500 => resp.body = RouteMessage[resp.route]

(* a PUT is answered 500 after the database reported a duplicate phone *)
C17_Witness ==
  /\ resp.status = 500
  /\ resp.route = "put"
  /\ resp.error = "23505"
  /\ resp.body = "Failed to update user"

----------------------------------------------------------------------------
(* C18: a ban, an unban and a VIP toggle with a boolean each send one update
   for the id of the request whose payload is the one field is_banned = true,
   is_banned = false or is_vip = v; every other column of that row and every
   other row keep their values. *)
FlagPayload(r) ==
  CASE r.route = "ban" -> [is_banned |-> TRUE]
    [] r.route = "unban" -> [is_banned |-> FALSE]
    [] r.route = "vip" -> [is_vip |-> r.body.isVip.b]

C18_FlagUpdatesCarryOneField ==
  [][(Idle /\ req'.route \in {"ban", "unban", "vip"} /\ resp'.status # 400)
       => /\ Len(resp'.db) = 1
          /\ resp'.db[1].op = "update"
          /\ resp'.db[1].query.id = req'.id
          /\ resp'.db[1].query.payload = FlagPayload(req')
          /\ Cardinality(DOMAIN resp'.db[1].query.payload) = 1
          /\ OnlyChanged(users, users', req'.id, DOMAIN FlagPayload(req'))]_vars

(* a VIP user with an expiry is banned, another row being in the table *)
C18_Witness ==
  /\ resp.route = "ban" /\ resp.status = 200
  /\ resp.body.is_banned /\ resp.body.is_vip
  /\ resp.body.expired_at # Null
  /\ resp.body \in users
  /\ \E u \in users : u.id # req.id

----------------------------------------------------------------------------
(* C19: with updates to one user in flight together and run by the database
   in any order, an update is answered 200 exactly when its call reached the
   database, the row exists and no other user holds the phone it sets,
   whatever the other update is; and every column of the row holds the value
   of the last statement the database ran without error among those whose
   payload has the column, or its value at registration when there is
   none. *)
SettersOf(c) ==
  {i \in DOMAIN done : done[i].error = NoError /\ c \in DOMAIN done[i].payload}

LastSetter(c) == CHOOSE i \in SettersOf(c) : \A j \in SettersOf(c) : j <= i

C19_ConcurrentUpdatesLastWriteWins ==
  /\ [][(Idle /\ Len(done') = Len(done) + 1) =>
          LET s == done'[Len(done')]
          IN resp'.status = 200 <=>
               /\ resp'.db[1].ok
               /\ \E u \in users : u.id = s.id
               /\ "phone" \in DOMAIN s.payload =>
                    ~\E u \in users : u.id # s.id /\ u.phone = s.payload.phone]_vars
  /\ [](\A u \in users : \A c \in Columns :
          u.id = RaceId =>
            u[c] = IF SettersOf(c) # {} THEN done[LastSetter(c)].payload[c]
                   ELSE NewRow(u.id, NameOf[u.id], PhoneOf[u.id], u.created_at.t)[c])

(* two updates that set the same column to different values were in flight
   together, the database ran the later request first, both succeeded, and
   the row holds the value of the one run last *)
C19_Witness ==
  /\ inflight = {}
  /\ Len(done) = 2
  /\ done[1].n = 2 /\ done[2].n = 1
  /\ done[1].error = NoError /\ done[2].error = NoError
  /\ \E c \in DOMAIN done[1].payload \cap DOMAIN done[2].payload :
       /\ done[1].payload[c] # done[2].payload[c]
       /\ \E u \in users : u.id = RaceId /\ u[c] = done[2].payload[c]

----------------------------------------------------------------------------
(* C21: the result of a successful getUserActivityTrend is in strictly
   ascending order of date and is the result for every order in which the
   database may return the same rows. *)
FetchedRows == SelectCreatedSince(DaysAgo(TrendDays))

TrendOf(rows) ==
  ActivityTrend(TrendDays, [i \in DOMAIN rows |-> [created_at |-> rows[i].created_at]])

C21_TrendIgnoresRowOrder ==
  TrendSucceeded =>
    /\ \A i, j \in DOMAIN resp.body : i < j => resp.body[i].date < resp.body[j].date
    /\ \A rows \in Perms(FetchedRows) : TrendOf(rows) = resp.body

(* rows of two different days were fetched and counted *)
C21_Witness ==
  /\ TrendSucceeded
  /\ \E u, v \in FetchedRows : DatePart(u.created_at) # DatePart(v.created_at)
  /\ \E i, j \in DOMAIN resp.body :
       i # j /\ resp.body[i].userCount >= 1 /\ resp.body[j].userCount >= 1

----------------------------------------------------------------------------
(* C24: in a successful getUserActivityTrend result the userCounts add up to
   the number of rows the database returned for the query. *)
RECURSIVE SumCounts(_)
SumCounts(entries) ==
  IF entries = <<>> THEN 0 ELSE Head(entries).userCount + SumCounts(Tail(entries))

C24_TrendCountsEveryFetchedRow ==
  TrendSucceeded => SumCounts(resp.body) = Cardinality(FetchedRows)

(* two fetched rows share a day and a third lies on another *)
C24_Witness ==
  /\ TrendSucceeded
  /\ Cardinality(FetchedRows) = 3
  /\ \E i \in DOMAIN resp.body : resp.body[i].userCount = 2

----------------------------------------------------------------------------
(* C22: the detail view of a user whose expired_at is null shows the
   expiration text 'No expiration'. *)
C22_NullExpiryShownAsNoExpiration ==
  (view.open /\ view.expired_at = Null) => view.expires = Text("No expiration")

----------------------------------------------------------------------------
(* C23: with settings requests in flight together and handled in any order,
   the settings are at every moment the defaults with the bodies of the
   updates handled so far merged in the order of handling: each key holds
   the value of the last handled update that names it, whatever other keys
   other updates set; and the answer to each request, GET or PUT, is that
   record as it is when the request is handled. *)
PutsNaming(k) ==
  {i \in DOMAIN done : done[i].route = "putSettings" /\ k \in DOMAIN done[i].body}

LastPutNaming(k) == CHOOSE i \in PutsNaming(k) : \A j \in PutsNaming(k) : j <= i

MergedInOrder ==
  [k \in DOMAIN DEFAULT_SETTINGS \cup UNION {DOMAIN done[i].body : i \in DOMAIN done} |->
     IF PutsNaming(k) # {} THEN done[LastPutNaming(k)].body[k] ELSE DEFAULT_SETTINGS[k]]

C23_SettingsRequestsAreSerial ==
  /\ settings = MergedInOrder
  /\ resp.route \in {"getSettings", "putSettings"} => resp.body = MergedInOrder

(* two updates of different keys arrived before a GET and were handled in
   the reverse order of arrival, the GET between them; both values are
   stored *)
C23_Witness ==
  /\ Len(done) = 3
  /\ done[1].route = "putSettings" /\ done[1].n = 2
  /\ done[2].route = "getSettings" /\ done[2].n = 3
  /\ done[3].route = "putSettings" /\ done[3].n = 1
  /\ DOMAIN done[1].body = {"maintenanceMode"} /\ DOMAIN done[3].body = {"appVersion"}
  /\ settings.maintenanceMode = TRUE /\ settings.appVersion = "2.0.0"

----------------------------------------------------------------------------
(* C25: when no write to the table happens while getUserStats runs and all
   five count queries succeed, the statistics it returns have totalUsers
   equal to activeUsers plus bannedUsers. *)
C25_TotalIsActivePlusBanned ==
  (resp.route = "stats" /\ \A k \in StatNames : resp.db[k].ok) =>
     resp.body.totalUsers.n = resp.body.activeUsers.n + resp.body.bannedUsers.n

----------------------------------------------------------------------------
(* C26: every database call made while serving a route, the list route with
   any table parameter in its query string included, addresses the table
   users2: the calls of the answered request and the count queries of a
   statistics request under way all name it, so reads and writes of all
   routes meet in one table. *)
C26_EveryCallAddressesUsers2 ==
  /\ "db" \in DOMAIN resp => \A i \in DOMAIN resp.db : resp.db[i].table = "users2"
  /\ \A k \in DOMAIN stats.calls : stats.calls[k].table = "users2"

(* the list route answered a request for the table users from users2, where
   a row updated through another route is *)
C26_Witness ==
  /\ resp.route = "users" /\ resp.status = 200
  /\ "table" \in DOMAIN req.query /\ req.query.table = "users"
  /\ resp.db[1].table = "users2"
  /\ \E u \in users : u.is_banned /\ u \in {resp.body.data[i] : i \in DOMAIN resp.body.data}

----------------------------------------------------------------------------
(* C27: in the user table of the dashboard the page the pagination
   highlights, currentPage of the hook, is the page of the filters of the
   users query, after any clicks on page numbers, Next and Previous and any
   filter changes. *)
C27_HighlightedPageIsFiltersPage == pager.currentPage = pager.filtersPage

----------------------------------------------------------------------------
(* C29: after any goToPage, nextPage, prevPage and change of totalItems,
   currentPage is within 1..totalPages, totalPages being the least number
   of pages of itemsPerPage items that hold totalItems and at least 1;
   goToPage(p) leaves currentPage at p brought into 1..totalPages;
   nextPage on the last page and prevPage on page 1 change nothing. *)
PagesFor(items, size) ==
  IF items = 0 THEN 1 ELSE CHOOSE k \in 1..items : k * size >= items /\ (k - 1) * size < items

IntoRange(page, last) == IF page < 1 THEN 1 ELSE IF page > last THEN last ELSE page

C29_CurrentPageWithinPages ==
  /\ [](pager.currentPage \in 1..PagesFor(pager.totalCount, pager.itemsPerPage))
  /\ [][\A page \in PageArgs :
          GoToPage(page) =>
            pager'.currentPage =
              IntoRange(page, PagesFor(pager.totalCount, pager.itemsPerPage))]_vars
  /\ [][(NextPage /\ pager.currentPage = PagesFor(pager.totalCount, pager.itemsPerPage))
          => pager' = pager]_vars
  /\ [][(PrevPage /\ pager.currentPage = 1) => pager' = pager]_vars

(* the last of seven pages of five items *)
C29_Witness ==
  /\ pager.totalCount = 31 /\ pager.itemsPerPage = 5 /\ pager.currentPage = 7

----------------------------------------------------------------------------
(* C30: for currentPage within 1..totalPages the page range starts with 1,
   ends with totalPages, holds currentPage, has its page numbers strictly
   increasing, has "..." only between two page numbers that are not
   consecutive, and for totalPages of 5 or less is 1..totalPages with no
   "...". *)
PageRangeNow == GetPageRange(pager.currentPage, PagesFor(pager.totalCount, pager.itemsPerPage))

NumbersOf(range) == SelectSeq(range, LAMBDA e : ~e.ellipsis)

C30_PageRangeWellFormed ==
  LET range == PageRangeNow
      last == PagesFor(pager.totalCount, pager.itemsPerPage)
      numbers == NumbersOf(range)
  IN /\ range[1] = Page(1)
     /\ range[Len(range)] = Page(last)
     /\ \E i \in DOMAIN range : range[i] = Page(pager.currentPage)
     /\ \A i \in 1..(Len(numbers) - 1) : numbers[i].n < numbers[i + 1].n
     /\ \A i \in DOMAIN range :
          range[i].ellipsis =>
            /\ 1 < i /\ i < Len(range)
            /\ ~range[i - 1].ellipsis /\ ~range[i + 1].ellipsis
            /\ range[i + 1].n > range[i - 1].n + 1
     /\ last <= 5 => range = [i \in 1..last |-> Page(i)]

(* a page in the middle of ten: two "..." in the range *)
C30_Witness ==
  /\ pager.currentPage = 5 /\ pager.totalCount = 50 /\ pager.itemsPerPage = 5
  /\ Len(SelectSeq(PageRangeNow, LAMBDA e : e.ellipsis)) = 2

----------------------------------------------------------------------------
(* C28: while the request of a ban or unban dialog is pending the dialog is
   open, no step confirms or cancels it, and the only step that closes it
   is the success of the request, so the dialog never has more than one
   request in flight; the success of the request closes the dialog and its
   failure leaves it open. *)
C28_PendingDialogStaysOpen ==
  /\ [](\A k \in DialogKinds :
          /\ dialogs[k].sent <= 1
          /\ dialogs[k].pending <=> dialogs[k].sent = 1
          /\ dialogs[k].pending => dialogs[k].open)
  /\ [][\A k \in DialogKinds :
          dialogs[k].pending =>
            /\ ~ConfirmDialog(k)
            /\ ~CancelDialog(k)
            /\ ~dialogs'[k].open => MutationSucceeds(k)]_vars
  /\ [][\A k \in DialogKinds :
          /\ MutationSucceeds(k) => ~dialogs'[k].open
          /\ MutationFails(k) => dialogs'[k].open /\ ~dialogs'[k].pending]_vars

(* the ban request of the open dialog has been answered by the server and
   is still pending *)
C28_Witness ==
  /\ dialogs["ban"].open /\ dialogs["ban"].pending /\ dialogs["ban"].sent = 1
  /\ resp.route = "ban" /\ resp.status = 200
  /\ \E u \in users : u.id = dialogs["ban"].id /\ u.is_banned

====
